---------------------------- MODULE Spec2Model ----------------------------
(***************************************************************************)
(* renderStatsCard of src/cards/stats-card.js as a state machine.          *)
(*                                                                         *)
(* An invocation is a frame: its arguments (call), its position (pc), the  *)
(* clock value it read (yearRead), its locals (statItems) and what it      *)
(* gave back (result).  The STATS object an invocation allocates lives in  *)
(* heap, at the address Scope gives that invocation.                       *)
(*                                                                         *)
(* Representation:                                                         *)
(*   - an optional value (JS undefined or a value) is <<>> or <<v>>;       *)
(*   - a string the code inspects character by character (number_format)   *)
(*     is a sequence of one-character strings;                             *)
(*   - pixel offsets that carry the fraction .01 are in hundredths;        *)
(*   - line_height, which may carry a fraction, is in tenths.              *)
(***************************************************************************)
EXTENDS Integers, Sequences, FiniteSets, TLC

VARIABLES call, pc, yearRead, statItems, result, heap, clock

vars == <<call, pc, yearRead, statItems, result, heap, clock>>

---------------------------------------------------------------------------
(* Bounds of the model. *)

\* Concurrent call sites of the interleaved specification.
NumCallers == 2

\* How many times the wall clock's year may advance.
MaxTicks == 1

---------------------------------------------------------------------------
(* Small helpers for the JS values. *)

Undefined == <<>>

Some(v) == <<v>>

IsDefined(o) == o # <<>>

Max(a, b) == IF a >= b THEN a ELSE b

Min(a, b) == IF a <= b THEN a ELSE b

\* The year the ambient clock shows after t advances.
YearOf(t) == 2026 + t

\* String.prototype.toLowerCase, on the letters the modes below use.
LowerChar(ch) ==
    CASE ch = "L" -> "l"
      [] ch = "O" -> "o"
      [] ch = "N" -> "n"
      [] ch = "G" -> "g"
      [] ch = "S" -> "s"
      [] ch = "H" -> "h"
      [] ch = "R" -> "r"
      [] ch = "T" -> "t"
      [] OTHER -> ch

toLowerCase(s) == [i \in DOMAIN s |-> LowerChar(s[i])]

\* Number.prototype.toString of an integer.
NumberToString(n) == ToString(n)

\* parseInt(String(line_height), 10) of a number given in tenths: the
\* fraction is dropped (truncation toward zero).
parseIntTenths(t) == IF t >= 0 THEN t \div 10 ELSE -((-t) \div 10)

\* kFormatter of common/utils.js: values of 1000 and more are shown in
\* thousands with at most one decimal and the suffix k.  Values stay below
\* one million here.
kFormatter(v) ==
    IF v > 999
    THEN LET tenths == (v + 50) \div 100
         IN  NumberToString(tenths \div 10)
             \o (IF tenths % 10 = 0 THEN "" ELSE "." \o NumberToString(tenths % 10))
             \o "k"
    ELSE NumberToString(v)

\* i18n.t(key): an opaque lookup in the read-only translation tables.
Translate(locale, key) == [locale |-> locale, key |-> key]

---------------------------------------------------------------------------
(* createTextNode *)

BaseShift == 7901

LongShift == 5000

kValueCaseSensitive(value, number_format) ==
    IF number_format = <<"l", "o", "n", "g">>
    THEN NumberToString(value)
    ELSE kFormatter(value)

\* const kValue = number_format.toLowerCase() === "long" ? value : kFormatter(value)
kValue(value, number_format) ==
    IF toLowerCase(number_format) = <<"l", "o", "n", "g">>
    THEN NumberToString(value)
    ELSE kFormatter(value)

\* const staggerDelay = (index + 3) * 150
staggerDelay(index) == (index + 3) * 150

\* x="${(showIcons ? 140 : 120) + shiftValuePos}", in hundredths
valueOffset(showIcons, shiftValuePos) ==
    (IF showIcons THEN 14000 ELSE 12000) + shiftValuePos

createTextNode(entry, index, showIcons, shiftValuePos, bold, number_format) ==
    [ delay  |-> staggerDelay(index),
      icon   |-> IF showIcons THEN Some(entry.icon) ELSE Undefined,
      labelX |-> IF showIcons THEN Some(25) ELSE Undefined,
      class  |-> IF bold THEN " bold" ELSE "not_bold",
      label  |-> entry.label,
      valueX |-> valueOffset(showIcons, shiftValuePos),
      id     |-> entry.id,
      text   |-> kValue(entry.value, number_format)
                 \o (IF IsDefined(entry.unitSymbol)
                     THEN " " \o entry.unitSymbol[1]
                     ELSE "") ]

---------------------------------------------------------------------------
(* renderStatsCard: the STATS mapping *)

\* STATS.stars, STATS.commits, STATS.prs in insertion order.
BaseSTATS(stats, options, year) ==
    << [ key        |-> "stars",
         icon       |-> "star",
         label      |-> [t |-> Translate(options.locale, "statcard.totalstars"),
                         suffix |-> ""],
         value      |-> stats.totalStars,
         id         |-> "stars",
         unitSymbol |-> Undefined ],
       [ key        |-> "commits",
         icon       |-> "commits",
         label      |-> [t |-> Translate(options.locale, "statcard.commits"),
                         suffix |-> IF options.include_all_commits
                                    THEN ""
                                    ELSE " (" \o NumberToString(year) \o ")"],
         value      |-> stats.totalCommits,
         id         |-> "commits",
         unitSymbol |-> Undefined ],
       [ key        |-> "prs",
         icon       |-> "prs",
         label      |-> [t |-> Translate(options.locale, "statcard.prs"),
                         suffix |-> ""],
         value      |-> stats.totalPRs,
         id         |-> "prs",
         unitSymbol |-> Undefined ] >>

\* The entries the listing elides: the merged-PR percentage, with its unit
\* symbol, is a candidate when the show list asks for it.
RemainingSTATS(stats, options) ==
    IF "prs_merged_percentage" \in options.show
    THEN << [ key        |-> "prs_merged_percentage",
              icon       |-> "prs_merged_percentage",
              label      |-> [t |-> Translate(options.locale,
                                              "statcard.prs-merged-percentage"),
                              suffix |-> ""],
              value      |-> stats.mergedPRsPercentage,
              id         |-> "prs_merged_percentage",
              unitSymbol |-> Some("%") ] >>
    ELSE << >>

BuildSTATS(stats, options, year) ==
    BaseSTATS(stats, options, year) \o RemainingSTATS(stats, options)

\* Object.keys(STATS): the keys in insertion order.
ObjectKeys(STATS) == [i \in DOMAIN STATS |-> STATS[i].key]

Lookup(STATS, key) ==
    STATS[CHOOSE i \in DOMAIN STATS : STATS[i].key = key]

---------------------------------------------------------------------------
(* renderStatsCard: locale shift, filter and map *)

longLocales ==
    { "cn", "es", "fr", "pt-br", "ru", "uk-ua", "id", "ml", "my", "pl",
      "de", "nl", "zh-tw", "uz" }

isLongLocaleAnyLocale(locale) == IsDefined(locale)

\* const isLongLocale = locale ? longLocales.includes(locale) : false
isLongLocale(locale) ==
    IF IsDefined(locale) /\ locale[1] # ""
    THEN locale[1] \in longLocales
    ELSE FALSE

\* shiftValuePos: 79.01 + (isLongLocale ? 50 : 0), in hundredths
shiftValuePos(locale) ==
    BaseShift + (IF isLongLocale(locale) THEN LongShift ELSE 0)

Reverse(s) == [i \in DOMAIN s |-> s[Len(s) + 1 - i]]

VisibleKeysReversed(STATS, hide) ==
    Reverse(SelectSeq(ObjectKeys(STATS), LAMBDA key : key \notin hide))

\* Object.keys(STATS).filter((key) => !hide.includes(key))
VisibleKeys(STATS, hide) ==
    SelectSeq(ObjectKeys(STATS), LAMBDA key : key \notin hide)

RECURSIVE PositionIn(_, _)
PositionIn(s, x) == IF s[1] = x THEN 0 ELSE 1 + PositionIn(Tail(s), x)

MapTextNodesFullIndex(STATS, keys, options) ==
    [i \in DOMAIN keys |->
        createTextNode(Lookup(STATS, keys[i]), PositionIn(ObjectKeys(STATS), keys[i]),
                       options.show_icons, shiftValuePos(options.locale),
                       options.text_bold, options.number_format)]

\* .map((key, index) => createTextNode({...STATS[key], index, ...}))
MapTextNodes(STATS, keys, options) ==
    [i \in DOMAIN keys |->
        createTextNode(Lookup(STATS, keys[i]), i - 1, options.show_icons,
                       shiftValuePos(options.locale), options.text_bold,
                       options.number_format)]

StatItems(STATS, options) ==
    MapTextNodes(STATS, VisibleKeys(STATS, options.hide), options)

---------------------------------------------------------------------------
(* renderStatsCard: the terminal error, the height, the markup *)

CustomError ==
    [ kind             |-> "error",
      message          |-> "Could not render stats card.",
      secondaryMessage |-> "Either stats or rank are required." ]

MustThrowEitherMissing(items, hide_rank) == Len(items) = 0 \/ hide_rank

MustThrowNever(items, hide_rank) == FALSE

\* if (statItems.length === 0 && hide_rank) throw
MustThrow(items, hide_rank) == Len(items) = 0 /\ hide_rank

HeightFloor150(n, lheight, hide_rank, card_height) ==
    IF IsDefined(card_height) /\ card_height[1] # 0
    THEN card_height[1]
    ELSE Max(45 + (n + 1) * lheight, IF n # 0 THEN 150 ELSE 180)

HeightRankAlone150(n, lheight, hide_rank, card_height) ==
    IF IsDefined(card_height) /\ card_height[1] # 0
    THEN card_height[1]
    ELSE Max(45 + (n + 1) * lheight, IF hide_rank THEN 0 ELSE 150)

HeightMin(n, lheight, hide_rank, card_height) ==
    IF IsDefined(card_height) /\ card_height[1] # 0
    THEN card_height[1]
    ELSE Min(45 + (n + 1) * lheight,
             IF hide_rank THEN 0 ELSE IF n # 0 THEN 150 ELSE 180)

\* let height = card_height || Math.max(45 + (statItems.length + 1) * lheight,
\*                                      hide_rank ? 0 : statItems.length ? 150 : 180)
Height(n, lheight, hide_rank, card_height) ==
    IF IsDefined(card_height) /\ card_height[1] # 0
    THEN card_height[1]
    ELSE Max(45 + (n + 1) * lheight,
             IF hide_rank THEN 0 ELSE IF n # 0 THEN 150 ELSE 180)

\* flexLayout({items, gap, direction: "column"}): the i-th fragment is
\* translated down by i gaps.
flexLayout(items, gap) ==
    [i \in DOMAIN items |-> [tag |-> "g", y |-> (i - 1) * gap, item |-> items[i]]]

\* The rank circle of the elided code: empty when the rank is hidden.
rankCircle(stats, hide_rank) ==
    IF hide_rank THEN << >> ELSE << [tag |-> "rank-circle", rank |-> stats.rank] >>

\* return card.render(`${rankCircle}<svg x="0" y="0">${flexLayout(...).join("")}</svg>`)
Markup(stats, options, card_height, items) ==
    LET lheight == parseIntTenths(options.line_height)
    IN  [ kind   |-> "markup",
          height |-> Height(Len(items), lheight, options.hide_rank, card_height),
          body   |-> rankCircle(stats, options.hide_rank)
                     \o << [tag |-> "svg"] >>
                     \o flexLayout(items, lheight)
                     \o << [tag |-> "/svg"] >> ]

\* What an invocation gives back once its rows are built.
Outcome(stats, options, card_height, items) ==
    IF MustThrow(items, options.hide_rank)
    THEN CustomError
    ELSE Markup(stats, options, card_height, items)

\* The whole function, given the year the clock shows.
renderStatsCard(args, year) ==
    Outcome(args.stats, args.options, args.card_height,
            StatItems(BuildSTATS(args.stats, args.options, year), args.options))

---------------------------------------------------------------------------
(* The activation record of an invocation. *)

SharedScope(c) == 1

\* const STATS = {}: a fresh object per invocation.
Scope(c) == c

---------------------------------------------------------------------------
(* Inputs *)

CandidateKeys == {"stars", "commits", "prs", "prs_merged_percentage"}

HideUniverse == CandidateKeys \cup {"unknown_key"}

StatsA ==
    [ name |-> "Anurag Hazra", totalStars |-> 950, totalCommits |-> 1500,
      totalPRs |-> 1000, mergedPRsPercentage |-> 50,
      rank |-> [level |-> "A+", percentile |-> 40] ]

StatsB ==
    [ name |-> "Alex", totalStars |-> 1500, totalCommits |-> 12,
      totalPRs |-> 0, mergedPRsPercentage |-> 100,
      rank |-> [level |-> "B", percentile |-> 70] ]

StatsRecords == { StatsA, StatsB }

NumberFormats ==
    { <<"s", "h", "o", "r", "t">>, <<"l", "o", "n", "g">>, <<"L", "O", "N", "G">> }

Locales == { Undefined, Some("en"), Some("fr") }

\* line_height in tenths: 25, 25.5 and 140.
LineHeights == { 250, 255, 1400 }

CardHeights == { Undefined, Some(0), Some(200) }

OptionsSpace ==
    [ hide                : SUBSET HideUniverse,
      show                : { {}, {"prs_merged_percentage"} },
      show_icons          : BOOLEAN,
      hide_rank           : BOOLEAN,
      include_all_commits : BOOLEAN,
      text_bold           : BOOLEAN,
      line_height         : LineHeights,
      number_format       : NumberFormats,
      locale              : Locales ]

ArgsSpace ==
    [ stats : StatsRecords, options : OptionsSpace, card_height : CardHeights ]

\* The narrower inputs of the interleaved specification.
PairOptionsSpace ==
    [ hide                : { {"stars"}, CandidateKeys },
      show                : { {} },
      show_icons          : { FALSE },
      hide_rank           : BOOLEAN,
      include_all_commits : BOOLEAN,
      text_bold           : { TRUE },
      line_height         : { 250 },
      number_format       : { <<"s", "h", "o", "r", "t">> },
      locale              : { Undefined } ]

PairArgsSpace ==
    [ stats : { StatsA }, options : PairOptionsSpace, card_height : { Undefined } ]

---------------------------------------------------------------------------
(* State machine *)

Callers == DOMAIN call

InitFrames(callers) ==
    /\ pc = [c \in callers |-> "called"]
    /\ yearRead = [c \in callers |-> Undefined]
    /\ statItems = [c \in callers |-> << >>]
    /\ result = [c \in callers |-> Undefined]
    /\ heap = [c \in callers |-> << >>]
    /\ clock = 0

\* One invocation, any arguments.
Init ==
    /\ call \in [{1} -> ArgsSpace]
    /\ InitFrames({1})

\* Several call sites at once.
InitPair ==
    /\ call \in [1 .. NumCallers -> PairArgsSpace]
    /\ InitFrames(1 .. NumCallers)

\* The synchronous call, entry to exit.
Render(c) ==
    /\ pc[c] = "called"
    /\ LET STATS == BuildSTATS(call[c].stats, call[c].options, YearOf(clock))
           items == StatItems(STATS, call[c].options)
           out   == Outcome(call[c].stats, call[c].options, call[c].card_height, items)
       IN  /\ heap' = [heap EXCEPT ![Scope(c)] = STATS]
           /\ statItems' = [statItems EXCEPT ![c] = items]
           /\ result' = [result EXCEPT ![c] = Some(out)]
           /\ pc' = [pc EXCEPT ![c] = IF out.kind = "error" THEN "thrown" ELSE "returned"]
    /\ yearRead' = [yearRead EXCEPT ![c] = Some(YearOf(clock))]
    /\ UNCHANGED <<call, clock>>

\* Lines 157-180: allocate STATS and fill it, reading the clock.
BuildStats(c) ==
    /\ pc[c] = "called"
    /\ heap' = [heap EXCEPT ![Scope(c)] =
                   BuildSTATS(call[c].stats, call[c].options, YearOf(clock))]
    /\ yearRead' = [yearRead EXCEPT ![c] = Some(YearOf(clock))]
    /\ pc' = [pc EXCEPT ![c] = "built"]
    /\ UNCHANGED <<call, statItems, result, clock>>

\* Lines 201-217: filter the keys of STATS and build the text nodes.
FilterMap(c) ==
    /\ pc[c] = "built"
    /\ statItems' = [statItems EXCEPT ![c] = StatItems(heap[Scope(c)], call[c].options)]
    /\ pc' = [pc EXCEPT ![c] = "filtered"]
    /\ UNCHANGED <<call, yearRead, result, heap, clock>>

\* Lines 219-224: nothing to render.
Throw(c) ==
    /\ pc[c] = "filtered"
    /\ MustThrow(statItems[c], call[c].options.hide_rank)
    /\ result' = [result EXCEPT ![c] = Some(CustomError)]
    /\ pc' = [pc EXCEPT ![c] = "thrown"]
    /\ UNCHANGED <<call, yearRead, statItems, heap, clock>>

\* Lines 226-244: the height and the markup.
Return(c) ==
    /\ pc[c] = "filtered"
    /\ ~MustThrow(statItems[c], call[c].options.hide_rank)
    /\ result' = [result EXCEPT ![c] =
                     Some(Markup(call[c].stats, call[c].options,
                                 call[c].card_height, statItems[c]))]
    /\ pc' = [pc EXCEPT ![c] = "returned"]
    /\ UNCHANGED <<call, yearRead, statItems, heap, clock>>

\* The year changes.
Tick ==
    /\ clock < MaxTicks
    /\ clock' = clock + 1
    /\ UNCHANGED <<call, pc, yearRead, statItems, result, heap>>

Next == \E c \in Callers : Render(c)

NextPair ==
    \/ \E c \in Callers : BuildStats(c)
    \/ \E c \in Callers : FilterMap(c)
    \/ \E c \in Callers : Throw(c)
    \/ \E c \in Callers : Return(c)
    \/ Tick

Spec == Init /\ [][Next]_vars

SpecPair == InitPair /\ [][NextPair]_vars

---------------------------------------------------------------------------
(* What the properties below speak of, stated without the operators above. *)

Done(c) == pc[c] \in {"thrown", "returned"}

Opts(c) == call[c].options

\* The fixed base order of the candidate stat keys.
BaseOrder == <<"stars", "commits", "prs", "prs_merged_percentage">>

\* The candidate keys of an invocation: the base three, and those asked for
\* by its show list.
Candidates(c) == {"stars", "commits", "prs"} \cup Opts(c).show

\* The keys its hide list leaves.
Visible(c) == Candidates(c) \ Opts(c).hide

VisibleCount(c) == Cardinality(Visible(c))

NoCardHeight(c) == call[c].card_height = Undefined

\* The integer line height the layout works with.
LineHeightOf(c) == parseIntTenths(Opts(c).line_height)

RowIds(c) == [i \in DOMAIN statItems[c] |-> statItems[c][i].id]

RECURSIVE IndexIn(_, _)
IndexIn(s, x) == IF Head(s) = x THEN 1 ELSE 1 + IndexIn(Tail(s), x)

\* The statistic a row shows.
ValueOfId(stats, id) ==
    CASE id = "stars" -> stats.totalStars
      [] id = "commits" -> stats.totalCommits
      [] id = "prs" -> stats.totalPRs
      [] id = "prs_merged_percentage" -> stats.mergedPRsPercentage

UnitSuffixOfId(id) == IF id = "prs_merged_percentage" THEN " %" ELSE ""

\* The abbreviated form of the values the statistics take.
ExpectedShort(v) ==
    CASE v = 0 -> "0"
      [] v = 12 -> "12"
      [] v = 50 -> "50"
      [] v = 100 -> "100"
      [] v = 950 -> "950"
      [] v = 1000 -> "1k"
      [] v = 1500 -> "1.5k"

\* The exact digit string of those values.
ExpectedLong(v) ==
    CASE v = 0 -> "0"
      [] v = 12 -> "12"
      [] v = 50 -> "50"
      [] v = 100 -> "100"
      [] v = 950 -> "950"
      [] v = 1000 -> "1000"
      [] v = 1500 -> "1500"

ModeLong == <<"l", "o", "n", "g">>

ModeLongUpper == <<"L", "O", "N", "G">>

\* The layout fragments of a returned markup.
LayoutRows(c) == SelectSeq(result[c][1].body, LAMBDA f : f.tag = "g")

---------------------------------------------------------------------------
(* The properties *)

\* C1: whenever the hide list removes every candidate stat key and hide_rank
\* is true, the invocation ends with the configuration error ('Could not
\* render stats card.' / 'Either stats or rank are required.') and gives back
\* no markup, whatever the other options are.
C1_EmptyAndRankHiddenThrows ==
    \A c \in Callers :
        (Done(c) /\ Visible(c) = {} /\ Opts(c).hide_rank)
            => /\ pc[c] = "thrown"
               /\ result[c] = Some([ kind |-> "error",
                                     message |-> "Could not render stats card.",
                                     secondaryMessage |->
                                         "Either stats or rank are required." ])

C1_Witness ==
    \E c \in Callers :
        /\ pc[c] = "thrown"
        /\ Visible(c) = {}
        /\ Opts(c).hide_rank
        /\ Opts(c).show_icons
        /\ Opts(c).show # {}
        /\ "unknown_key" \in Opts(c).hide
        /\ call[c].card_height = Some(200)
        /\ Opts(c).number_format = ModeLong

\* C2: whenever at least one candidate stat key is not hidden, or hide_rank
\* is false, the invocation does not raise the configuration error and gives
\* back a non-empty markup.
C2_SomethingToShowRenders ==
    \A c \in Callers :
        (Done(c) /\ (Visible(c) # {} \/ ~Opts(c).hide_rank))
            => /\ pc[c] = "returned"
               /\ result[c][1].kind = "markup"
               /\ Len(result[c][1].body) > 0

C2_Witness ==
    \E c \in Callers :
        /\ pc[c] = "returned"
        /\ Opts(c).hide_rank
        /\ VisibleCount(c) = 1
        /\ Len(result[c][1].body) = 3

\* C3 as stated: with no explicit card_height, hide_rank true and n >= 1
\* visible rows, the height is max(45 + (n+1)*lineHeight, 150).
C3_Original_HiddenRankFloor150 ==
    \A c \in Callers :
        (pc[c] = "returned" /\ NoCardHeight(c) /\ Opts(c).hide_rank
            /\ VisibleCount(c) >= 1)
            => result[c][1].height
                   = Max(45 + (VisibleCount(c) + 1) * LineHeightOf(c), 150)

\* C3 as amended: with no explicit card_height, hide_rank true and n >= 1
\* visible rows, the height is max(45 + (n+1)*lineHeight, 0): the floor is 0
\* whenever the rank indicator is hidden, rows or no rows.
C3_HiddenRankFloorZero ==
    \A c \in Callers :
        (pc[c] = "returned" /\ NoCardHeight(c) /\ Opts(c).hide_rank
            /\ VisibleCount(c) >= 1)
            => result[c][1].height
                   = Max(45 + (VisibleCount(c) + 1) * LineHeightOf(c), 0)

C3_Witness ==
    \E c \in Callers :
        /\ pc[c] = "returned"
        /\ NoCardHeight(c)
        /\ Opts(c).hide_rank
        /\ VisibleCount(c) = 1
        /\ LineHeightOf(c) = 25
        /\ result[c][1].height = 95

\* C4: with no explicit card_height and hide_rank false, the height is
\* max(45 + (n+1)*lineHeight, floor) for n visible rows, the floor being 180
\* when n = 0 and 150 when n >= 1; with line height 25 and no rows it is 180.
C4_ShownRankFloors ==
    \A c \in Callers :
        (pc[c] = "returned" /\ NoCardHeight(c) /\ ~Opts(c).hide_rank)
            => /\ result[c][1].height
                      = Max(45 + (VisibleCount(c) + 1) * LineHeightOf(c),
                            IF VisibleCount(c) = 0 THEN 180 ELSE 150)
               /\ (VisibleCount(c) = 0 /\ LineHeightOf(c) = 25)
                      => result[c][1].height = 180

C4_Witness ==
    \E c \in Callers :
        /\ pc[c] = "returned"
        /\ NoCardHeight(c)
        /\ ~Opts(c).hide_rank
        /\ VisibleCount(c) = 0
        /\ Opts(c).line_height = 250
        /\ result[c][1].height = 180

\* C5: for any hide list, unknown keys included, the rows are the base
\* sequence of candidate keys with the hidden keys removed: every key left
\* appears exactly once, no hidden key appears, and the base order is kept.
C5_RowsAreBaseOrderMinusHidden ==
    \A c \in Callers :
        Done(c)
            => /\ {RowIds(c)[i] : i \in DOMAIN RowIds(c)} = Visible(c)
               /\ Len(RowIds(c)) = VisibleCount(c)
               /\ \A i, j \in DOMAIN RowIds(c) :
                      i < j => IndexIn(BaseOrder, RowIds(c)[i])
                                   < IndexIn(BaseOrder, RowIds(c)[j])

C5_Witness ==
    \E c \in Callers :
        /\ Done(c)
        /\ Opts(c).hide = {"commits", "unknown_key"}
        /\ RowIds(c) = <<"stars", "prs", "prs_merged_percentage">>

\* C6: the row at zero-based position i among the visible rows has animation
\* delay (i+3)*150: the first visible row has 450 and neighbours differ by
\* 150, whichever keys were hidden.
C6_StaggerByVisibleIndex ==
    \A c \in Callers :
        Done(c)
            => \A i \in DOMAIN statItems[c] :
                   /\ statItems[c][i].delay = ((i - 1) + 3) * 150
                   /\ i = 1 => statItems[c][i].delay = 450
                   /\ i > 1 => statItems[c][i].delay
                                   = statItems[c][i - 1].delay + 150

C6_Witness ==
    \E c \in Callers :
        /\ Done(c)
        /\ Opts(c).hide = {"stars", "commits"}
        /\ Len(statItems[c]) = 2
        /\ statItems[c][1].id = "prs"
        /\ statItems[c][1].delay = 450
        /\ statItems[c][2].delay = 600

\* C7: every visible row's value column is at 140 + shiftValuePos with icons
\* and 120 + shiftValuePos without, shiftValuePos being 79.01 + 50 exactly
\* when the locale is one of the long locales and 79.01 otherwise, no locale
\* included (offsets in hundredths).
C7_ValueColumnOffset ==
    \A c \in Callers :
        Done(c)
            => \A i \in DOMAIN statItems[c] :
                   statItems[c][i].valueX
                       = (IF Opts(c).show_icons THEN 14000 ELSE 12000)
                         + (IF Opts(c).locale \in
                                   { Some("cn"), Some("es"), Some("fr"),
                                     Some("pt-br"), Some("ru"), Some("uk-ua"),
                                     Some("id"), Some("ml"), Some("my"),
                                     Some("pl"), Some("de"), Some("nl"),
                                     Some("zh-tw"), Some("uz") }
                            THEN 7901 + 5000
                            ELSE 7901)

C7_Witness ==
    \E c \in Callers :
        /\ Done(c)
        /\ Opts(c).show_icons
        /\ Opts(c).locale = Some("fr")
        /\ Len(statItems[c]) >= 2
        /\ statItems[c][1].valueX = 26901
        /\ statItems[c][2].valueX = 26901

\* C8: what an invocation gives back is a function of its stats, its options
\* (card_height with them) and the year it read: it is what the function
\* gives for that triple alone, so two invocations with the same triple give
\* the same, whatever other invocations ran before or in between.
C8_OutputDependsOnOwnInputsOnly ==
    /\ \A c \in Callers :
           Done(c) => result[c] = Some(renderStatsCard(call[c], yearRead[c][1]))
    /\ \A c, d \in Callers :
           (Done(c) /\ Done(d) /\ call[c] = call[d] /\ yearRead[c] = yearRead[d])
               => result[c] = result[d]

C8_Witness ==
    \E c, d \in Callers :
        /\ c # d
        /\ Done(c) /\ Done(d)
        /\ call[c] # call[d]
        /\ yearRead[c] # yearRead[d]
        /\ pc[c] = "returned" /\ pc[d] = "returned"
        /\ ~Opts(c).include_all_commits
        /\ result[c] # result[d]

\* C9 as stated: the value text is the exact digit string when the mode is
\* "long" and the abbreviated form for any other mode value, followed by a
\* space and the unit symbol exactly when the row has one.
C9_Original_OnlyLongIsExact ==
    \A c \in Callers :
        Done(c)
            => \A i \in DOMAIN statItems[c] :
                   LET v == ValueOfId(call[c].stats, statItems[c][i].id)
                   IN  statItems[c][i].text
                           = (IF Opts(c).number_format = ModeLong
                              THEN ExpectedLong(v)
                              ELSE ExpectedShort(v))
                             \o UnitSuffixOfId(statItems[c][i].id)

\* C9 as amended: the value text is the exact digit string when the mode,
\* compared without regard to letter case, is "long" ("LONG" too), and the
\* abbreviated form otherwise, followed by a space and the unit symbol
\* exactly when the row has one.
C9_LongIgnoringCaseIsExact ==
    \A c \in Callers :
        Done(c)
            => \A i \in DOMAIN statItems[c] :
                   LET v == ValueOfId(call[c].stats, statItems[c][i].id)
                   IN  statItems[c][i].text
                           = (IF Opts(c).number_format \in {ModeLong, ModeLongUpper}
                              THEN ExpectedLong(v)
                              ELSE ExpectedShort(v))
                             \o UnitSuffixOfId(statItems[c][i].id)

C9_Witness ==
    \E c \in Callers :
        /\ Done(c)
        /\ Opts(c).number_format = ModeLongUpper
        /\ call[c].stats.totalStars = 1500
        /\ Len(statItems[c]) = 4
        /\ statItems[c][1].text = "1500"
        /\ statItems[c][4].text = "100 %"

\* C10: with no explicit card_height and a positive integer line_height, the
\* height is at least 45 + (n+1)*lineHeight for n visible rows, for every
\* hide list and hide_rank, so each row, laid at offset i*lineHeight for
\* i in 0..n-1, starts strictly inside the card's height.
C10_RowsStartInsideHeight ==
    \A c \in Callers :
        (pc[c] = "returned" /\ NoCardHeight(c)
            /\ Opts(c).line_height > 0 /\ Opts(c).line_height % 10 = 0)
            => LET lh == Opts(c).line_height \div 10
                   rows == LayoutRows(c)
               IN  /\ result[c][1].height >= 45 + (VisibleCount(c) + 1) * lh
                   /\ Len(rows) = VisibleCount(c)
                   /\ \A i \in DOMAIN rows :
                          /\ rows[i].y = (i - 1) * lh
                          /\ rows[i].y >= 0
                          /\ rows[i].y < result[c][1].height

C10_Witness ==
    \E c \in Callers :
        /\ pc[c] = "returned"
        /\ NoCardHeight(c)
        /\ Opts(c).hide_rank
        /\ Opts(c).line_height = 1400
        /\ Len(LayoutRows(c)) = 4
        /\ LayoutRows(c)[4].y = 420
        /\ result[c][1].height = 745

===========================================================================
